---- MODULE Spec2Model ----
(***************************************************************************)
(* Model of the comment-resolution pipeline of compare-comments:           *)
(* app/main.py (task registry, analyze_documents, get_status,              *)
(* process_documents), app/services/document_processor.py,                 *)
(* app/services/comment_analyzer.py and app/config.py.                     *)
(*                                                                         *)
(* A Python str is modelled as a sequence of symbols (a symbol is a TLA+   *)
(* string standing for one character or one indivisible run of             *)
(* characters).  An Optional value is a sequence of length 0 (None) or 1.  *)
(* The three Russian status literals are transliterated, TLA+ strings      *)
(* being ASCII: "uchten", "chastichno uchten", "ne uchten".                *)
(***************************************************************************)
EXTENDS Integers, Sequences, FiniteSets, TLC

\* ------------------------------------------------------------------ bounds
NumTasks == 2
MaxLines == 2
MaxChunks == 2

Tasks == 1..NumTasks

\* ------------------------------------------------------------ Optional[T]
None == <<>>
Some(x) == <<x>>
IsNone(o) == o = <<>>
The(o) == o[1]

\* --------------------------------------------------------------- str ops
\* str.find / str.rfind: 0-based index of the first / last occurrence, or -1.
Find(s, c) ==
    IF \E i \in 1..Len(s) : s[i] = c
    THEN (CHOOSE i \in 1..Len(s) : s[i] = c /\ \A j \in 1..(i - 1) : s[j] # c) - 1
    ELSE -1

RFind(s, c) ==
    IF \E i \in 1..Len(s) : s[i] = c
    THEN (CHOOSE i \in 1..Len(s) : s[i] = c /\ \A j \in (i + 1)..Len(s) : s[j] # c) - 1
    ELSE -1

\* s[a:b] for 0 <= a, 0 <= b (Python slice, 0-based, b exclusive).
Slice(s, a, b) ==
    LET hi == IF b > Len(s) THEN Len(s) ELSE b
    IN  IF a >= hi THEN <<>> ELSE SubSeq(s, a + 1, hi)

\* str.strip(): leading and trailing whitespace symbols removed.
RECURSIVE LStrip(_)
LStrip(s) == IF s # <<>> /\ Head(s) = "w" THEN LStrip(Tail(s)) ELSE s

RECURSIVE RStrip(_)
RStrip(s) ==
    IF s # <<>> /\ s[Len(s)] = "w" THEN RStrip(SubSeq(s, 1, Len(s) - 1)) ELSE s

Strip(s) == RStrip(LStrip(s))

\* str.startswith(prefix)
StartsWith(s, prefix) ==
    Len(s) >= Len(prefix) /\ SubSeq(s, 1, Len(prefix)) = prefix

\* ---------------------------------------------------------------- config
QDRANT_COLLECTION_V1_PREFIX == <<"doc_v1_">>
QDRANT_COLLECTION_V2_PREFIX == <<"doc_v2_">>

\* --------------------------------------------------- completion responses
(* Symbols of a completion response: "{" and "}", "w" (whitespace), "p"    *)
(* (a prose character, never valid JSON outside a string), "n" (a JSON     *)
(* number literal), and member symbols, each standing for one well-formed  *)
(* "key": "value" member of an object together with its separator.        *)
MemberTable ==
    ("status:uchten" :> <<"status", "uchten">>) @@
    ("status:chastichno uchten" :> <<"status", "chastichno uchten">>) @@
    ("status:ne uchten" :> <<"status", "ne uchten">>) @@
    ("status:maybe" :> <<"status", "maybe">>) @@
    ("explanation:e" :> <<"explanation", "e">>) @@
    ("evidence_v1:a" :> <<"evidence_v1", "a">>) @@
    ("evidence_v2:b" :> <<"evidence_v2", "b">>) @@
    ("suggestion:s" :> <<"suggestion", "s">>)

MemberSyms == DOMAIN MemberTable
MemberKey(m) == MemberTable[m][1]
MemberVal(m) == <<MemberTable[m][2]>>

\* json.loads: the parsed value, or the JSONDecodeError raised.
\* kind is "object" (members: the member symbols in order), "number" or
\* "invalid".
json_loads(text) ==
    LET t == Strip(text)
    IN  IF t = <<"n">>
        THEN [kind |-> "number", members |-> <<>>]
        ELSE IF /\ Len(t) >= 2
                /\ t[1] = "{"
                /\ t[Len(t)] = "}"
                /\ \A i \in 2..(Len(t) - 1) : t[i] \in MemberSyms \cup {"w"}
        THEN [kind |-> "object",
              members |-> SelectSeq(SubSeq(t, 2, Len(t) - 1),
                                    LAMBDA c : c \in MemberSyms)]
        ELSE [kind |-> "invalid", members |-> <<>>]

\* dict.get(key, default) on a parsed object: the last member with the key wins.
DictGet(members, key, default) ==
    LET hits == {i \in 1..Len(members) : MemberKey(members[i]) = key}
    IN  IF hits = {} THEN default
        ELSE MemberVal(members[CHOOSE i \in hits : \A j \in hits : j <= i])

\* CommentAnalyzer._create_error_result; error is the exception's name, or
\* "None".
create_error_result(comment, error, json_text) ==
    [comment_id   |-> comment.comment_id,
     comment_text |-> comment.comment_text,
     explanation  |-> IF error # "None"
                      THEN <<"Error analyzing comment: ", error>>
                      ELSE <<"Error analyzing comment (Unknown)">>,
     evidence_v1  |-> json_text,
     evidence_v2  |-> <<>>,
     suggestion   |-> <<>>,
     status       |-> <<"error">>]

\* candidate_text without the brace extraction: the stripped response is
\* handed to the parser whole.
candidate_text_whole(llm_response) == Strip(llm_response)

\* evidence_text numbering the hits from 0.
evidence_text_zero_based(hits) ==
    [i \in 1..Len(hits) |-> <<"Chunk ", ToString(i - 1), hits[i]>>]

\* The evidence of one version in the prompt (comment_analyzer.py 31-36):
\* f"Chunk {i+1}:\n{text}" for each hit, in the order search returned them.
evidence_text(hits) ==
    [i \in 1..Len(hits) |-> <<"Chunk ", ToString(i), hits[i]>>]

\* candidate_text cut at the first "{" only: what follows the last "}" stays.
candidate_text_from_first_brace(llm_response) ==
    LET json_text   == Strip(llm_response)
        first_brace == Find(json_text, "{")
    IN  IF first_brace # -1
        THEN Slice(json_text, first_brace, Len(json_text))
        ELSE json_text

\* The candidate text handed to json.loads (comment_analyzer.py 81-86).
candidate_text(llm_response) ==
    LET json_text   == Strip(llm_response)
        first_brace == Find(json_text, "{")
        last_brace  == RFind(json_text, "}")
    IN  IF first_brace # -1 /\ last_brace # -1
        THEN Slice(json_text, first_brace, last_brace + 1)
        ELSE json_text

\* result_from_json reading the fields with result[key]: a missing field
\* raises KeyError, which the handler turns into an error result.
result_from_json_strict(comment, members) ==
    IF \A key \in {"explanation", "evidence_v1", "evidence_v2", "suggestion", "status"} :
           \E i \in 1..Len(members) : MemberKey(members[i]) = key
    THEN [comment_id   |-> comment.comment_id,
          comment_text |-> comment.comment_text,
          explanation  |-> DictGet(members, "explanation", <<>>),
          evidence_v1  |-> DictGet(members, "evidence_v1", <<>>),
          evidence_v2  |-> DictGet(members, "evidence_v2", <<>>),
          suggestion   |-> DictGet(members, "suggestion", <<>>),
          status       |-> DictGet(members, "status", <<>>)]
    ELSE create_error_result(comment, "KeyError", <<>>)

\* The result built from a parsed object (comment_analyzer.py 90-98).
result_from_json(comment, members) ==
    [comment_id   |-> comment.comment_id,
     comment_text |-> comment.comment_text,
     explanation  |-> DictGet(members, "explanation", <<"No explanation provided">>),
     evidence_v1  |-> DictGet(members, "evidence_v1", <<"No evidence provided">>),
     evidence_v2  |-> DictGet(members, "evidence_v2", <<"No evidence provided">>),
     suggestion   |-> DictGet(members, "suggestion", <<>>),
     status       |-> DictGet(members, "status", <<"ne uchten">>)]

\* classify with the parse failure swallowed: an unparseable candidate text
\* gives the placeholders of a parsed object instead of an error result.
classify_placeholders_on_bad_json(comment, llm_response) ==
    IF llm_response = <<>>
    THEN create_error_result(comment, "None", <<>>)
    ELSE LET json_text == candidate_text(llm_response)
             result    == json_loads(json_text)
         IN  CASE result.kind = "number" ->
                    create_error_result(comment, "AttributeError", json_text)
               [] OTHER -> result_from_json(comment, result.members)

\* classify whose error result carries the raw response instead of the
\* candidate text.
classify_reports_raw_response(comment, llm_response) ==
    IF llm_response = <<>>
    THEN create_error_result(comment, "None", <<>>)
    ELSE LET json_text == candidate_text(llm_response)
             result    == json_loads(json_text)
         IN  CASE result.kind = "object" -> result_from_json(comment, result.members)
               [] result.kind = "number" ->
                    create_error_result(comment, "AttributeError", llm_response)
               [] OTHER ->
                    create_error_result(comment, "JSONDecodeError", llm_response)

\* classify reading a parsed value that is not an object as an object with
\* no field.
classify_placeholders_on_non_object(comment, llm_response) ==
    IF llm_response = <<>>
    THEN create_error_result(comment, "None", <<>>)
    ELSE LET json_text == candidate_text(llm_response)
             result    == json_loads(json_text)
         IN  CASE result.kind = "object" -> result_from_json(comment, result.members)
               [] result.kind = "number" -> result_from_json(comment, <<>>)
               [] OTHER ->
                    create_error_result(comment, "JSONDecodeError", json_text)

\* CommentAnalyzer.analyze_comment from the completion's return on
\* (comment_analyzer.py 73-105): never raises.
classify(comment, llm_response) ==
    IF llm_response = <<>>
    THEN create_error_result(comment, "None", <<>>)
    ELSE LET json_text == candidate_text(llm_response)
             result    == json_loads(json_text)
         IN  CASE result.kind = "object" -> result_from_json(comment, result.members)
               [] result.kind = "number" ->
                    create_error_result(comment, "AttributeError", json_text)
               [] OTHER ->
                    create_error_result(comment, "JSONDecodeError", json_text)

\* ------------------------------------------------------ DocumentProcessor
(* A document file: whether it exists, its extension, whether reading it   *)
(* succeeds, and its text.  A text is a sequence of "c" (a window of       *)
(* content) and "w" (whitespace only); the splitter yields one chunk per   *)
(* "c".  The content of a file is particular to its path: the k-th chunk   *)
(* of the file at `path` has the text path \o <<k>>.                       *)
DocTexts == UNION {[1..n -> {"c", "w"}] : n \in 0..MaxChunks}
DocFiles ==
    [exists : BOOLEAN, ext : {".txt", ".pdf", ".docx"}, readable : BOOLEAN,
     text : DocTexts]

\* DocumentProcessor.load_document_text: Optional[str].
load_document_text(doc) ==
    IF ~doc.exists THEN None
    ELSE IF doc.ext \notin {".txt", ".pdf"} THEN None
    ELSE IF ~doc.readable THEN None
    ELSE Some(doc.text)

\* RecursiveCharacterTextSplitter.split_text: the chunk texts, in text order.
split_text(path, text) ==
    LET windows == SelectSeq(text, LAMBDA c : c = "c")
    IN  [k \in 1..Len(windows) |-> path \o <<ToString(k)>>]

\* Whether process_document reaches embedding_model.encode (line 106).
document_encodes(path, doc) ==
    LET text == load_document_text(doc)
    IN  /\ ~IsNone(text)
        /\ The(text) # <<>>
        /\ split_text(path, The(text)) # <<>>

\* process_document numbering the chunks from 1.
process_document_one_based(path, doc, encode_ok) ==
    LET text == load_document_text(doc)
    IN  IF IsNone(text) \/ The(text) = <<>> THEN None
        ELSE LET chunks == split_text(path, The(text))
             IN  IF chunks = <<>> THEN Some(<<>>)
                 ELSE IF ~encode_ok THEN None
                 ELSE Some([i \in 1..Len(chunks) |->
                              [text        |-> chunks[i],
                               embedding   |-> <<"search_document: ">> \o chunks[i],
                               chunk_index |-> i]])

\* DocumentProcessor.process_document: Optional[List[chunk]], the "chunks"
\* of the returned dict; encode_ok tells whether encode returns or raises.
process_document(path, doc, encode_ok) ==
    LET text == load_document_text(doc)
    IN  IF IsNone(text) \/ The(text) = <<>> THEN None
        ELSE LET chunks == split_text(path, The(text))
             IN  IF chunks = <<>> THEN Some(<<>>)
                 ELSE IF ~encode_ok THEN None
                 ELSE Some([i \in 1..Len(chunks) |->
                              [text        |-> chunks[i],
                               embedding   |-> <<"search_document: ">> \o chunks[i],
                               chunk_index |-> i - 1]])

(* A comments file: its lines, as the file iterator yields them.  A line   *)
(* is whitespace only, or a text with its line break, indented or not.     *)
Lines == {<<"w">>, <<"x", "w">>, <<"w", "y", "w">>}
CommentFiles ==
    [exists : BOOLEAN, readable : BOOLEAN,
     lines : UNION {[1..n -> Lines] : n \in 0..MaxLines}]

\* The comments of lines[1..n], in file order (the loop of lines 81-84).
RECURSIVE comments_of(_, _)
comments_of(lines, n) ==
    IF n = 0 THEN <<>>
    ELSE LET text == Strip(lines[n])
         IN  IF text # <<>>
             THEN Append(comments_of(lines, n - 1),
                         [comment_id   |-> <<"C", ToString(n)>>,
                          comment_text |-> text])
             ELSE comments_of(lines, n - 1)

\* DocumentProcessor.load_comments: Optional[List[comment]].
load_comments(file) ==
    IF ~file.exists THEN None
    ELSE IF ~file.readable THEN None
    ELSE Some(comments_of(file.lines, Len(file.lines)))

\* Whether process_comments reaches embedding_model.encode (line 133).
comments_encode(file) ==
    LET comments == load_comments(file)
    IN  ~IsNone(comments) /\ The(comments) # <<>>

\* DocumentProcessor.process_comments: Optional[List[comment]].
process_comments(file, encode_ok) ==
    LET comments == load_comments(file)
    IN  IF IsNone(comments) THEN None
        ELSE IF The(comments) = <<>> THEN Some(<<>>)
        ELSE IF ~encode_ok THEN None
        ELSE Some([i \in 1..Len(The(comments)) |->
                     [comment_id   |-> The(comments)[i].comment_id,
                      comment_text |-> The(comments)[i].comment_text,
                      embedding    |-> <<"search_query: ">>
                                         \o The(comments)[i].comment_text]])

\* ------------------------------------------------------------ VectorStore
(* app/services/vector_store.py: a store maps a collection name to the     *)
(* points upserted into it, in upsert order.                               *)
recreate_collection(store, name) ==
    [n \in (DOMAIN store) \cup {name} |-> IF n = name THEN <<>> ELSE store[n]]

upsert_chunks(store, name, chunks) ==
    [store EXCEPT ![name] = @ \o chunks]

\* The payload texts of the at most k points of the collection nearest to
\* the query, nearest first.
search(store, name, query, k) ==
    LET points == store[name]
        n      == IF Len(points) < k THEN Len(points) ELSE k
    IN  [i \in 1..n |-> points[i].text]

\* One call on the store, as [op, name, chunks].
apply_call(store, call) ==
    IF call.op = "recreate_collection"
    THEN recreate_collection(store, call.name)
    ELSE upsert_chunks(store, call.name, call.chunks)

RECURSIVE apply_calls(_, _, _)
apply_calls(store, calls, n) ==
    IF n = 0 THEN store
    ELSE apply_call(apply_calls(store, calls, n - 1), calls[n])

\* --------------------------------------------------------------- main.py
top_k == 10

\* task_id without the uuid: every task gets the same id.
task_id_not_unique(t) == <<"task_", "0">>

\* f"task_{uuid.uuid4().hex}": the hex part of task t is one symbol.
task_id(t) == <<"task_", ToString(t)>>

doc_path(t, version) == <<"uploads/">> \o task_id(t) \o <<"/", version, "_">>

\* The caller's document base names (splitext(basename(doc_v1.filename))).
BaseNames ==
    {<<"a">>,
     <<"doc_v2_", "doc_v1_", "a">>,
     <<"a", "-", "task_", "1">>}

\* The record analyze_documents stores (lines 169-179).
new_record(doc_base_name) ==
    [status           |-> "processing",
     base_name        |-> doc_base_name,
     progress         |-> "uploading",
     result           |-> None,
     results_path     |-> None,
     comment_progress |-> None,
     error            |-> None,
     completed_at     |-> None,
     results_url      |-> None]

\* completed_update that leaves results_path to a later write.
completed_update_without_path(rec, results, results_path) ==
    [rec EXCEPT !.status = "completed",
                !.progress = "completed",
                !.completed_at = Some("now"),
                !.result = Some(results)]

\* results_store[task_id].update({...}) of lines 618-626.
completed_update(rec, results, results_path) ==
    [rec EXCEPT !.status = "completed",
                !.progress = "completed",
                !.completed_at = Some("now"),
                !.result = Some(results),
                !.results_path = Some(results_path)]

\* error_update that also exposes what was collected before the failure.
error_update_keeps_partial(rec, message, results) ==
    [rec EXCEPT !.status = "error",
                !.progress = "error",
                !.error = Some(message),
                !.completed_at = Some("now"),
                !.result = Some(results)]

\* error_update that sets the status and leaves the progress at the stage.
error_update_status_only(rec, message, results) ==
    [rec EXCEPT !.status = "error",
                !.error = Some(message),
                !.completed_at = Some("now")]

\* results_store[task_id].update({...}) of lines 630-637; results are the
\* results collected so far, which the handler does not use.
error_update(rec, message, results) ==
    [rec EXCEPT !.status = "error",
                !.progress = "error",
                !.error = Some(message),
                !.completed_at = Some("now")]

\* The tests without their emptiness half (`if not processed:` only).
document_failed_none_only(processed) == IsNone(processed)
comments_failed_none_only(processed) == IsNone(processed)

\* The tests of lines 545 and 554, and of line 563.
document_failed(processed) == IsNone(processed) \/ The(processed) = <<>>
comments_failed(processed) == IsNone(processed) \/ The(processed) = <<>>

\* Lines 571-577.
strip_prefix(name, prefix) ==
    IF StartsWith(name, prefix) THEN Slice(name, Len(prefix), Len(name)) ELSE name

clean_base_name(doc_base_name) ==
    strip_prefix(strip_prefix(doc_base_name, QDRANT_COLLECTION_V1_PREFIX),
                 QDRANT_COLLECTION_V2_PREFIX)

\* analyzer_collection building both names with the v1 prefix.
analyzer_collection_always_v1(prefix, doc_base_name) ==
    QDRANT_COLLECTION_V1_PREFIX \o doc_base_name

\* Lines 579-584 and 598; comment_analyzer.py 17-18.
collection_name(prefix, clean, t) == prefix \o clean \o <<"-">> \o task_id(t)
analysis_base_name(clean, t) == clean \o <<"-">> \o task_id(t)
analyzer_collection(prefix, doc_base_name) == prefix \o doc_base_name

results_path_of(t) == <<"results/results_">> \o task_id(t) \o <<".json">>

\* The completion responses drawn in the pipeline.
Responses ==
    {<<>>,
     <<"p", "p">>,
     <<"n">>,
     <<"p", "{", "status:uchten", "explanation:e", "}", "w">>,
     <<"{", "status:maybe", "}">>}

(* The completion responses of the parsing study: a body, with at most     *)
(* MaxProse symbols of framing text before it and after it.  A body is an  *)
(* object holding any subset of the five fields, no text at all, a JSON    *)
(* number, or braces around text that is not JSON.  Framing text may       *)
(* itself hold a brace.                                                    *)
MaxProse == 1

ProseSyms == {"p", "w", "{", "}"}
Prose == UNION {[1..n -> ProseSyms] : n \in 0..MaxProse}

Fields ==
    <<"status:uchten", "explanation:e", "evidence_v1:a", "evidence_v2:b",
      "suggestion:s">>
FieldSyms == {Fields[k] : k \in 1..Len(Fields)}

ObjectOf(present) ==
    <<"{">> \o SelectSeq(Fields, LAMBDA m : m \in present) \o <<"}">>

Bodies ==
    {ObjectOf(present) : present \in SUBSET FieldSyms}
    \cup {<<>>, <<"n">>, <<"{", "p", "}">>}

ParseResponses == {b \o body \o a : b \in Prose, body \in Bodies, a \in Prose}

VARIABLES
    results_store,  \* task -> record, for the tasks registered (main.py 29)
    local,          \* task -> the frame of its request and background unit
    collections,    \* the vector index: collection name -> points
    results_files,  \* the paths of the report files written
    blocked,        \* the event loop's thread is inside a call that never returns
    vec_log,        \* task -> the vector-index calls it has made, in order
    llm_log,        \* task -> its completion calls: comment id, the evidence
                    \*         in the prompt, response if any
    search_hits,    \* task -> the chunk texts its searches have returned
    fault           \* task -> the input or call failure it has met, if any

vars ==
    <<results_store, local, collections, results_files, blocked, vec_log,
      llm_log, search_hits, fault>>

\* No fault met: see document_fault, comments_fault and call_fault below.
no_fault == <<"none", "none">>

new_frame ==
    [pc                 |-> "idle",
     doc_base_name      |-> <<>>,
     processed_v1       |-> <<>>,
     processed_v2       |-> <<>>,
     processed_comments |-> <<>>,
     clean_base_name    |-> <<>>,
     results            |-> <<>>,
     i                  |-> 0]

Init ==
    /\ results_store = <<>>
    /\ local = [t \in Tasks |-> new_frame]
    /\ collections = <<>>
    /\ results_files = {}
    /\ blocked = FALSE
    /\ vec_log = [t \in Tasks |-> <<>>]
    /\ llm_log = [t \in Tasks |-> <<>>]
    /\ search_hits = [t \in Tasks |-> {}]
    /\ fault = [t \in Tasks |-> no_fault]

\* The coroutine of t is at the await of `pc` and the loop is free to resume it.
at(t, pc) == ~blocked /\ local[t].pc = pc

\* raise_in_task that only logs: the unit ends and the record is left as is.
raise_in_task_silent(t, message) ==
    /\ local' = [local EXCEPT ![t].pc = "done"]
    /\ UNCHANGED <<results_store, blocked>>

\* The except clause of process_documents (lines 628-637).
raise_in_task(t, message) ==
    /\ results_store' =
         [results_store EXCEPT ![t] = error_update(@, message, local[t].results)]
    /\ local' = [local EXCEPT ![t].pc = "done"]
    /\ UNCHANGED blocked

\* A call that never returns: the coroutine keeps the loop's only thread.
hang_in_task(t) ==
    /\ blocked' = TRUE
    /\ local' = [local EXCEPT ![t].pc = "hung"]
    /\ UNCHANGED results_store

Outcomes == {"return", "raise", "hang"}

\* collect that leaves error results out of the report.
collect_substantive_only(results, result) ==
    IF result.status = <<"error">> THEN results ELSE Append(results, result)

\* collect that puts the newest result first.
collect_prepends(results, result) == <<result>> \o results

\* results.append(result), line 607.
collect(results, result) == Append(results, result)

(* What went wrong for a task, as <<where, what>>, told from its inputs    *)
(* and from the outcomes of its calls alone: an unreadable or unsupported  *)
(* document, a document of zero chunks, a comments file that cannot be     *)
(* read or holds no comment, a call that raised or never returned, a       *)
(* report that could not be written.                                       *)
document_fault(version, path, doc, encode) ==
    LET text == load_document_text(doc)
    IN  IF IsNone(text) THEN <<version, "unreadable">>
        ELSE IF split_text(path, The(text)) = <<>> THEN <<version, "zero_chunks">>
        ELSE IF encode = "raise" THEN <<version, "embedding_raised">>
        ELSE IF encode = "hang" THEN <<version, "embedding_hung">>
        ELSE no_fault

comments_fault(file, encode) ==
    LET comments == load_comments(file)
    IN  IF IsNone(comments) THEN <<"comments", "unreadable">>
        ELSE IF The(comments) = <<>> THEN <<"comments", "zero_comments">>
        ELSE IF encode = "raise" THEN <<"comments", "embedding_raised">>
        ELSE IF encode = "hang" THEN <<"comments", "embedding_hung">>
        ELSE no_fault

call_fault(service, outcome) ==
    CASE outcome = "return" -> no_fault
      [] outcome = "raise" -> <<service, "call_raised">>
      [] outcome = "hang" -> <<service, "call_hung">>

\* analyze_documents, lines 143-166: the uploads are saved (each read is an
\* await); a failed save answers 500 and stores no record.  Tasks are
\* numbered in the order of their requests.
SaveUploads(t) ==
    /\ at(t, "idle")
    /\ \A u \in Tasks : u < t => local[u].pc # "idle"
    /\ \E saved \in BOOLEAN :
         local' = [local EXCEPT ![t].pc = IF saved THEN "saved" ELSE "rejected"]
    /\ UNCHANGED <<results_store, collections, results_files, blocked, vec_log,
                   llm_log, search_hits, fault>>

\* analyze_documents, lines 168-188: the record is stored and the background
\* unit is queued.
Register(t, names) ==
    /\ at(t, "saved")
    /\ \E doc_base_name \in names :
         /\ results_store' = (t :> new_record(doc_base_name)) @@ results_store
         /\ local' = [local EXCEPT ![t].pc = "queued",
                                   ![t].doc_base_name = doc_base_name]
    /\ UNCHANGED <<collections, results_files, blocked, vec_log, llm_log,
                   search_hits, fault>>

\* StartProcessing writing the stage after the right one.
StartProcessing_skips_stage(t) ==
    /\ at(t, "queued")
    /\ results_store' = [results_store EXCEPT ![t].progress = "processing_v2"]
    /\ local' = [local EXCEPT ![t].pc = "L542"]
    /\ UNCHANGED <<collections, results_files, blocked, vec_log, llm_log,
                   search_hits, fault>>

\* process_documents, lines 539-542.
StartProcessing(t) ==
    /\ at(t, "queued")
    /\ results_store' = [results_store EXCEPT ![t].progress = "processing_v1"]
    /\ local' = [local EXCEPT ![t].pc = "L542"]
    /\ UNCHANGED <<collections, results_files, blocked, vec_log, llm_log,
                   search_hits, fault>>

\* process_documents, lines 544-551.
ProcessV1(t, docs) ==
    /\ at(t, "L542")
    /\ \E doc \in docs, encode \in Outcomes :
         LET path      == doc_path(t, "v1")
             processed == process_document(path, doc, encode = "return")
         IN  /\ fault' = [fault EXCEPT ![t] = document_fault("v1", path, doc, encode)]
             /\ IF document_encodes(path, doc) /\ encode = "hang"
                THEN hang_in_task(t)
                ELSE IF document_failed(processed)
                THEN raise_in_task(
                         t, <<"Failed to process document v1 or no text extracted">>)
                ELSE /\ results_store' =
                          [results_store EXCEPT ![t].progress = "processing_v2"]
                     /\ local' = [local EXCEPT ![t].pc = "L551",
                                               ![t].processed_v1 = The(processed)]
                     /\ UNCHANGED blocked
    /\ UNCHANGED <<collections, results_files, vec_log, llm_log, search_hits>>

\* process_documents, lines 553-560.
ProcessV2(t, docs) ==
    /\ at(t, "L551")
    /\ \E doc \in docs, encode \in Outcomes :
         LET path      == doc_path(t, "v2")
             processed == process_document(path, doc, encode = "return")
         IN  /\ fault' = [fault EXCEPT ![t] = document_fault("v2", path, doc, encode)]
             /\ IF document_encodes(path, doc) /\ encode = "hang"
                THEN hang_in_task(t)
                ELSE IF document_failed(processed)
                THEN raise_in_task(
                         t, <<"Failed to process document v2 or no text extracted">>)
                ELSE /\ results_store' =
                          [results_store EXCEPT ![t].progress = "processing_comments"]
                     /\ local' = [local EXCEPT ![t].pc = "L560",
                                               ![t].processed_v2 = The(processed)]
                     /\ UNCHANGED blocked
    /\ UNCHANGED <<collections, results_files, vec_log, llm_log, search_hits>>

\* process_documents, lines 562-569.
ProcessComments(t, files) ==
    /\ at(t, "L560")
    /\ \E file \in files, encode \in Outcomes :
         LET processed == process_comments(file, encode = "return")
         IN  /\ fault' = [fault EXCEPT ![t] = comments_fault(file, encode)]
             /\ IF comments_encode(file) /\ encode = "hang"
                THEN hang_in_task(t)
                ELSE IF comments_failed(processed)
                THEN raise_in_task(
                         t, <<"Failed to process comments or no comments found">>)
                ELSE /\ results_store' =
                          [results_store EXCEPT ![t].progress = "creating_vector_db"]
                     /\ local' = [local EXCEPT ![t].pc = "L569",
                                               ![t].processed_comments = The(processed)]
                     /\ UNCHANGED blocked
    /\ UNCHANGED <<collections, results_files, vec_log, llm_log, search_hits>>

\* vector_calls whose second upsert names the v1 collection again.
vector_calls_upserts_v2_into_v1(t, clean) ==
    LET v1_collection == collection_name(QDRANT_COLLECTION_V1_PREFIX, clean, t)
        v2_collection == collection_name(QDRANT_COLLECTION_V2_PREFIX, clean, t)
    IN  <<[op |-> "recreate_collection", name |-> v1_collection, chunks |-> <<>>],
          [op |-> "upsert_chunks", name |-> v1_collection,
           chunks |-> local[t].processed_v1],
          [op |-> "recreate_collection", name |-> v2_collection, chunks |-> <<>>],
          [op |-> "upsert_chunks", name |-> v1_collection,
           chunks |-> local[t].processed_v2]>>

\* The four calls of lines 586-590.
vector_calls(t, clean) ==
    LET v1_collection == collection_name(QDRANT_COLLECTION_V1_PREFIX, clean, t)
        v2_collection == collection_name(QDRANT_COLLECTION_V2_PREFIX, clean, t)
    IN  <<[op |-> "recreate_collection", name |-> v1_collection, chunks |-> <<>>],
          [op |-> "upsert_chunks", name |-> v1_collection,
           chunks |-> local[t].processed_v1],
          [op |-> "recreate_collection", name |-> v2_collection, chunks |-> <<>>],
          [op |-> "upsert_chunks", name |-> v2_collection,
           chunks |-> local[t].processed_v2]>>

logged(call) == <<call.op, call.name>>

\* process_documents, lines 571-593: `done` of the four calls return, and
\* the next one, if any, raises or never returns.
CreateVectorDb(t) ==
    /\ at(t, "L569")
    /\ \E done \in 0..4, outcome \in Outcomes :
         LET clean  == clean_base_name(local[t].doc_base_name)
             calls  == vector_calls(t, clean)
             made   == IF done < 4 THEN done + 1 ELSE 4
         IN  /\ (done = 4) = (outcome = "return")
             /\ collections' = apply_calls(collections, calls, done)
             /\ vec_log' =
                  [vec_log EXCEPT ![t] = @ \o [k \in 1..made |-> logged(calls[k])]]
             /\ fault' = [fault EXCEPT ![t] = call_fault("vector_index", outcome)]
             /\ CASE outcome = "hang" -> hang_in_task(t)
                  [] outcome = "raise" -> raise_in_task(t, <<"VectorIndexError">>)
                  [] OTHER ->
                       /\ results_store' =
                            [results_store EXCEPT ![t].progress = "analyzing_comments"]
                       /\ local' = [local EXCEPT ![t].pc = "L593",
                                                 ![t].clean_base_name = clean]
                       /\ UNCHANGED blocked
    /\ UNCHANGED <<results_files, llm_log, search_hits>>

\* EnterLoop writing the 0-based loop index as the counter.
EnterLoop_counts_from_zero(t) ==
    /\ at(t, "L593")
    /\ LET total_comments == Len(local[t].processed_comments)
       IN  IF total_comments > 0
           THEN /\ results_store' =
                     [results_store EXCEPT
                        ![t].comment_progress = Some(<<0, total_comments>>)]
                /\ local' = [local EXCEPT ![t].pc = "L602",
                                          ![t].results = <<>>, ![t].i = 0]
           ELSE /\ results_store' =
                     [results_store EXCEPT ![t].progress = "saving_results"]
                /\ local' = [local EXCEPT ![t].pc = "L610",
                                          ![t].results = <<>>, ![t].i = 0]
    /\ UNCHANGED <<collections, results_files, blocked, vec_log, llm_log,
                   search_hits, fault>>

\* process_documents, lines 595-602, or 595-610 when there is no comment to
\* loop over: the counter of the first comment is written, or the
\* saving_results stage.
EnterLoop(t) ==
    /\ at(t, "L593")
    /\ LET total_comments == Len(local[t].processed_comments)
       IN  IF total_comments > 0
           THEN /\ results_store' =
                     [results_store EXCEPT
                        ![t].comment_progress = Some(<<1, total_comments>>)]
                /\ local' = [local EXCEPT ![t].pc = "L602",
                                          ![t].results = <<>>, ![t].i = 0]
           ELSE /\ results_store' =
                     [results_store EXCEPT ![t].progress = "saving_results"]
                /\ local' = [local EXCEPT ![t].pc = "L610",
                                          ![t].results = <<>>, ![t].i = 0]
    /\ UNCHANGED <<collections, results_files, blocked, vec_log, llm_log,
                   search_hits, fault>>

\* AnalyzeComment asking the completion service again for a comment whose
\* response gave an error result.
AnalyzeComment_retries(t, responses) ==
    /\ at(t, "L602")
    /\ \E done \in 0..3, outcome \in Outcomes, llm_response \in responses :
         LET i       == local[t].i
             total   == Len(local[t].processed_comments)
             comment == local[t].processed_comments[i + 1]
             base    == analysis_base_name(local[t].clean_base_name, t)
             v1_collection == analyzer_collection(QDRANT_COLLECTION_V1_PREFIX, base)
             v2_collection == analyzer_collection(QDRANT_COLLECTION_V2_PREFIX, base)
             v1_results == search(collections, v1_collection, comment.embedding, top_k)
             v2_results == search(collections, v2_collection, comment.embedding, top_k)
             calls   == <<<<"search", v1_collection, comment.embedding, top_k>>,
                          <<"search", v2_collection, comment.embedding, top_k>>>>
             made    == IF done < 2 THEN done + 1 ELSE 2
             result  == classify(comment, llm_response)
             results == collect(local[t].results, result)
         IN  /\ (done = 3) = (outcome = "return")
             /\ done < 3 => llm_response = <<>>
             /\ vec_log' = [vec_log EXCEPT ![t] = @ \o SubSeq(calls, 1, made)]
             /\ search_hits' =
                  [search_hits EXCEPT ![t] =
                     @ \cup (IF done >= 1 THEN {v1_results[k] : k \in DOMAIN v1_results}
                             ELSE {})
                       \cup (IF done >= 2 THEN {v2_results[k] : k \in DOMAIN v2_results}
                             ELSE {})]
             /\ llm_log' =
                  [llm_log EXCEPT ![t] =
                     IF done >= 2
                     THEN Append(@, [comment_id |-> comment.comment_id,
                                     v1_text    |-> evidence_text(v1_results),
                                     v2_text    |-> evidence_text(v2_results),
                                     returned   |-> IF done = 3 THEN Some(llm_response)
                                                    ELSE None])
                     ELSE @]
             /\ fault' =
                  [fault EXCEPT ![t] =
                     call_fault(IF done < 2 THEN "vector_index" ELSE "completion",
                                outcome)]
             /\ CASE outcome = "hang" -> hang_in_task(t)
                  [] outcome = "raise" ->
                       raise_in_task(t, IF done < 2 THEN <<"VectorIndexError">>
                                        ELSE <<"CompletionError">>)
                  [] result.status = <<"error">> ->
                       UNCHANGED <<results_store, local, blocked>>
                  [] OTHER ->
                       /\ results_store' =
                            IF i + 1 < total
                            THEN [results_store EXCEPT
                                    ![t].comment_progress = Some(<<i + 2, total>>)]
                            ELSE [results_store EXCEPT
                                    ![t].progress = "saving_results"]
                       /\ local' =
                            [local EXCEPT
                               ![t].results = results,
                               ![t].i = i + 1,
                               ![t].pc = IF i + 1 < total THEN "L602" ELSE "L610"]
                       /\ UNCHANGED blocked
    /\ UNCHANGED <<collections, results_files>>

\* process_documents, lines 604-610 and 600-602: comment i is analyzed
\* (comment_analyzer.py 16-105: two searches, then the completion) and its
\* result appended; then the counter of the next comment is written, or,
\* after the last one, the saving_results stage.  `done` of the three calls
\* return, and the next one, if any, raises or never returns.
AnalyzeComment(t, responses) ==
    /\ at(t, "L602")
    /\ \E done \in 0..3, outcome \in Outcomes, llm_response \in responses :
         LET i       == local[t].i
             total   == Len(local[t].processed_comments)
             comment == local[t].processed_comments[i + 1]
             base    == analysis_base_name(local[t].clean_base_name, t)
             v1_collection == analyzer_collection(QDRANT_COLLECTION_V1_PREFIX, base)
             v2_collection == analyzer_collection(QDRANT_COLLECTION_V2_PREFIX, base)
             v1_results == search(collections, v1_collection, comment.embedding, top_k)
             v2_results == search(collections, v2_collection, comment.embedding, top_k)
             calls   == <<<<"search", v1_collection, comment.embedding, top_k>>,
                          <<"search", v2_collection, comment.embedding, top_k>>>>
             made    == IF done < 2 THEN done + 1 ELSE 2
             result  == classify(comment, llm_response)
             results == collect(local[t].results, result)
         IN  /\ (done = 3) = (outcome = "return")
             /\ done < 3 => llm_response = <<>>
             /\ vec_log' = [vec_log EXCEPT ![t] = @ \o SubSeq(calls, 1, made)]
             /\ search_hits' =
                  [search_hits EXCEPT ![t] =
                     @ \cup (IF done >= 1 THEN {v1_results[k] : k \in DOMAIN v1_results}
                             ELSE {})
                       \cup (IF done >= 2 THEN {v2_results[k] : k \in DOMAIN v2_results}
                             ELSE {})]
             /\ llm_log' =
                  [llm_log EXCEPT ![t] =
                     IF done >= 2
                     THEN Append(@, [comment_id |-> comment.comment_id,
                                     v1_text    |-> evidence_text(v1_results),
                                     v2_text    |-> evidence_text(v2_results),
                                     returned   |-> IF done = 3 THEN Some(llm_response)
                                                    ELSE None])
                     ELSE @]
             /\ fault' =
                  [fault EXCEPT ![t] =
                     call_fault(IF done < 2 THEN "vector_index" ELSE "completion",
                                outcome)]
             /\ CASE outcome = "hang" -> hang_in_task(t)
                  [] outcome = "raise" ->
                       raise_in_task(t, IF done < 2 THEN <<"VectorIndexError">>
                                        ELSE <<"CompletionError">>)
                  [] OTHER ->
                       /\ results_store' =
                            IF i + 1 < total
                            THEN [results_store EXCEPT
                                    ![t].comment_progress = Some(<<i + 2, total>>)]
                            ELSE [results_store EXCEPT
                                    ![t].progress = "saving_results"]
                       /\ local' =
                            [local EXCEPT
                               ![t].results = results,
                               ![t].i = i + 1,
                               ![t].pc = IF i + 1 < total THEN "L602" ELSE "L610"]
                       /\ UNCHANGED blocked
    /\ UNCHANGED <<collections, results_files>>

\* SaveResults with the record completed before the report file is written:
\* a failed write then overwrites a completed record.
SaveResults_completes_first(t) ==
    /\ \/ /\ at(t, "L610")
          /\ results_store' =
               [results_store EXCEPT
                  ![t] = completed_update(@, local[t].results, results_path_of(t))]
          /\ local' = [local EXCEPT ![t].pc = "L610_completed"]
          /\ UNCHANGED <<results_files, blocked, fault>>
       \/ /\ at(t, "L610_completed")
          /\ \E written \in BOOLEAN :
               IF written
               THEN /\ results_files' = results_files \cup {results_path_of(t)}
                    /\ local' = [local EXCEPT ![t].pc = "done"]
                    /\ UNCHANGED <<results_store, blocked, fault>>
               ELSE /\ raise_in_task(t, <<"OSError">>)
                    /\ fault' = [fault EXCEPT ![t] = <<"report", "write_failed">>]
                    /\ UNCHANGED results_files
    /\ UNCHANGED <<collections, vec_log, llm_log, search_hits>>

\* process_documents, lines 612-626: the report file is written and the
\* record completed; a failed write raises.
SaveResults(t) ==
    /\ at(t, "L610")
    /\ \E written \in BOOLEAN :
         IF written
         THEN /\ results_files' = results_files \cup {results_path_of(t)}
              /\ UNCHANGED fault
              /\ results_store' =
                   [results_store EXCEPT
                      ![t] = completed_update(@, local[t].results, results_path_of(t))]
              /\ local' = [local EXCEPT ![t].pc = "done"]
              /\ UNCHANGED blocked
         ELSE /\ raise_in_task(t, <<"OSError">>)
              /\ fault' = [fault EXCEPT ![t] = <<"report", "write_failed">>]
              /\ UNCHANGED results_files
    /\ UNCHANGED <<collections, vec_log, llm_log, search_hits>>

\* get_status, lines 245-255: a request for a stored task; the loop must
\* be free to run the handler.
GetStatus(t) ==
    /\ ~blocked
    /\ t \in DOMAIN results_store
    /\ results_store' =
         IF results_store[t].status = "completed"
            /\ ~IsNone(results_store[t].results_path)
         THEN [results_store EXCEPT
                 ![t].results_url = Some(The(results_store[t].results_path))]
         ELSE results_store
    /\ UNCHANGED <<local, collections, results_files, blocked, vec_log, llm_log,
                   search_hits, fault>>

\* get_status_html, lines 258-528: the page is rendered from the record,
\* which is only read.
GetStatusHtml(t) ==
    /\ ~blocked
    /\ UNCHANGED vars

(* The inputs of the concurrent specification: one readable and one       *)
(* unsupported document, a comments file of one comment and an empty one,  *)
(* a well-formed and an empty completion; two tasks may be given the same  *)
(* document name, or a name that ends like another task's collection.      *)
ConcurrentNames == {<<"a">>, <<"a", "-", "task_", "1">>}
ConcurrentDocs ==
    {[exists |-> TRUE, ext |-> e, readable |-> TRUE, text |-> <<"c">>] :
       e \in {".txt", ".docx"}}
ConcurrentFiles ==
    {[exists |-> TRUE, readable |-> TRUE, lines |-> l] : l \in {<<>>, <<<<"x", "w">>>>}}
ConcurrentResponses == {<<>>, <<"{", "status:uchten", "}">>}

\* Requests, background units and status queries of NumTasks tasks,
\* interleaved at the awaits.
Next ==
    \E t \in Tasks :
        \/ SaveUploads(t)
        \/ Register(t, ConcurrentNames)
        \/ StartProcessing(t)
        \/ ProcessV1(t, ConcurrentDocs)
        \/ ProcessV2(t, ConcurrentDocs)
        \/ ProcessComments(t, ConcurrentFiles)
        \/ CreateVectorDb(t)
        \/ EnterLoop(t)
        \/ AnalyzeComment(t, ConcurrentResponses)
        \/ SaveResults(t)
        \/ GetStatus(t)
        \/ GetStatusHtml(t)

Spec == Init /\ [][Next]_vars

\* One task, over every document, comments file and completion response
\* within the bounds.
NextTask ==
    \/ SaveUploads(1)
    \/ Register(1, BaseNames)
    \/ StartProcessing(1)
    \/ ProcessV1(1, DocFiles)
    \/ ProcessV2(1, DocFiles)
    \/ ProcessComments(1, CommentFiles)
    \/ CreateVectorDb(1)
    \/ EnterLoop(1)
    \/ AnalyzeComment(1, Responses)
    \/ SaveResults(1)
    \/ GetStatus(1)
    \/ GetStatusHtml(1)

SpecTask == Init /\ [][NextTask]_vars

\* One task with one comment, over every completion response of the
\* parsing study.
NextParse ==
    \/ SaveUploads(1)
    \/ Register(1, {<<"a">>})
    \/ StartProcessing(1)
    \/ ProcessV1(1, ConcurrentDocs)
    \/ ProcessV2(1, ConcurrentDocs)
    \/ ProcessComments(1, ConcurrentFiles)
    \/ CreateVectorDb(1)
    \/ EnterLoop(1)
    \/ AnalyzeComment(1, ParseResponses)
    \/ SaveResults(1)
    \/ GetStatus(1)
    \/ GetStatusHtml(1)

SpecParse == Init /\ [][NextParse]_vars

(* The inputs of the retrieval study: a document of one chunk and one of   *)
(* more chunks than a search returns, and comments files of up to two      *)
(* comments.                                                               *)
LongDoc ==
    [exists |-> TRUE, ext |-> ".txt", readable |-> TRUE,
     text |-> [k \in 1..(top_k + 1) |-> "c"]]
SearchDocs ==
    {LongDoc, [exists |-> TRUE, ext |-> ".pdf", readable |-> TRUE, text |-> <<"c">>]}
SearchFiles ==
    {[exists |-> TRUE, readable |-> TRUE, lines |-> l] :
       l \in {<<<<"x", "w">>>>, <<<<"x", "w">>, <<"w", "y", "w">>>>}}

\* One task, over the inputs of the retrieval study.
NextSearch ==
    \/ SaveUploads(1)
    \/ Register(1, {<<"a">>})
    \/ StartProcessing(1)
    \/ ProcessV1(1, SearchDocs)
    \/ ProcessV2(1, SearchDocs)
    \/ ProcessComments(1, SearchFiles)
    \/ CreateVectorDb(1)
    \/ EnterLoop(1)
    \/ AnalyzeComment(1, ConcurrentResponses)
    \/ SaveResults(1)
    \/ GetStatus(1)
    \/ GetStatusHtml(1)

SpecSearch == Init /\ [][NextSearch]_vars

(* The inputs of the scheduling study: a readable document of one chunk,   *)
(* a comments file of one comment and an empty completion; every call may  *)
(* still return, raise or never return.                                    *)
FairDocs == {[exists |-> TRUE, ext |-> ".txt", readable |-> TRUE, text |-> <<"c">>]}
FairFiles == {[exists |-> TRUE, readable |-> TRUE, lines |-> <<<<"x", "w">>>>]}
FairResponses == {<<>>}

\* A step of the background unit of task t (process_documents, 531-637).
UnitStep(t) ==
    \/ StartProcessing(t)
    \/ ProcessV1(t, FairDocs)
    \/ ProcessV2(t, FairDocs)
    \/ ProcessComments(t, FairFiles)
    \/ CreateVectorDb(t)
    \/ EnterLoop(t)
    \/ AnalyzeComment(t, FairResponses)
    \/ SaveResults(t)

NextFair ==
    \E t \in Tasks :
        \/ SaveUploads(t)
        \/ Register(t, {<<"a">>})
        \/ UnitStep(t)
        \/ GetStatus(t)
        \/ GetStatusHtml(t)

\* The event loop resumes every coroutine that is ready: a background unit
\* that can take its next step eventually takes it.  Requests and queries
\* are under no obligation to arrive.
SpecFair == Init /\ [][NextFair]_vars /\ \A t \in Tasks : WF_vars(UnitStep(t))

\* ----------------------------------------------------------------- claims
Stages ==
    <<"uploading", "processing_v1", "processing_v2", "processing_comments",
      "creating_vector_db", "analyzing_comments", "saving_results", "completed">>

StageIndex(p) == CHOOSE k \in 1..Len(Stages) : Stages[k] = p
IsStage(p) == \E k \in 1..Len(Stages) : Stages[k] = p

\* The progress a status query of task t would read from `store`.
progress_in(store, t) == IF t \in DOMAIN store THEN store[t].progress ELSE "absent"
status_in(store, t) == IF t \in DOMAIN store THEN store[t].status ELSE "absent"

Terminal == {"completed", "error"}
Registered == DOMAIN results_store

\* C1: every change of a task's progress goes from no record to uploading,
\* from a stage to the stage right after it, or from a stage to error; so
\* the values a task's progress takes are a prefix of the stage sequence,
\* optionally followed by error, with no stage skipped or entered again.
C1_StageOrder ==
    [][\A t \in Tasks :
         LET p == progress_in(results_store, t)
             q == progress_in(results_store', t)
         IN  p # q =>
               \/ p = "absent" /\ q = "uploading"
               \/ IsStage(p) /\ q = "error"
               \/ /\ IsStage(p)
                  /\ StageIndex(p) < Len(Stages)
                  /\ q = Stages[StageIndex(p) + 1]]_vars

\* A task has gone through every stage, and its report is stored.
C1_Witness ==
    \E t \in Registered :
        /\ results_store[t].progress = "completed"
        /\ local[t].pc = "done"
        /\ Len(local[t].results) = MaxLines

\* C2: once a task's status is completed or error, no step (of its own
\* unit, of another task, or a status query) changes its status or progress.
C2_TerminalIsFinal ==
    [][\A t \in Tasks :
         status_in(results_store, t) \in Terminal =>
           /\ status_in(results_store', t) = status_in(results_store, t)
           /\ progress_in(results_store', t) = progress_in(results_store, t)]_vars

\* Task 1 completed and was queried afterwards (the query stored the
\* results_url), and task 2 ran to its end meanwhile or later.
C2_Witness ==
    /\ {1, 2} \subseteq Registered
    /\ results_store[1].status = "completed"
    /\ ~IsNone(results_store[1].results_url)
    /\ results_store[2].status = "error"
    /\ local[2].pc = "done"

\* The message process_documents records for a fault (lines 546, 555, 564,
\* and str(e) of an exception raised by a call).
FaultMessage(f) ==
    CASE f[1] = "v1" -> <<"Failed to process document v1 or no text extracted">>
      [] f[1] = "v2" -> <<"Failed to process document v2 or no text extracted">>
      [] f[1] = "comments" -> <<"Failed to process comments or no comments found">>
      [] f[1] = "vector_index" -> <<"VectorIndexError">>
      [] f[1] = "completion" -> <<"CompletionError">>
      [] f[1] = "report" -> <<"OSError">>

RaisingFaults ==
    {<<v, "zero_chunks">> : v \in {"v1", "v2"}}
    \cup {<<"comments", "zero_comments">>}
    \cup {<<w, "embedding_raised">> : w \in {"v1", "v2", "comments"}}
    \cup {<<c, "call_raised">> : c \in {"vector_index", "completion"}}

\* C3: a task whose document v1 or v2 yielded zero chunks, whose comments
\* file yielded zero comments, or one of whose embedding, vector-index or
\* completion calls raised, has status error, never completed, and its
\* error field holds the message of that condition.
C3_FaultEndsInError ==
    \A t \in Tasks :
        fault[t] \in RaisingFaults =>
          /\ t \in Registered
          /\ results_store[t].status = "error"
          /\ results_store[t].progress = "error"
          /\ ~IsNone(results_store[t].error)
          /\ The(results_store[t].error) = FaultMessage(fault[t])
          /\ local[t].pc = "done"

\* Each raising fault has been met by some task that had work behind it.
C3_Witness ==
    \E t \in Tasks :
        /\ fault[t] = <<"completion", "call_raised">>
        /\ results_store[t].status = "error"
        /\ Len(local[t].results) >= 1

\* C4: the report of a completed task has one entry per input comment, the
\* i-th with the id and the text of the i-th input comment.
C4_ReportMatchesComments ==
    \A t \in Registered :
        results_store[t].status = "completed" =>
          LET report   == The(results_store[t].result)
              comments == local[t].processed_comments
          IN  /\ Len(report) = Len(comments)
              /\ \A k \in 1..Len(comments) :
                   /\ report[k].comment_id = comments[k].comment_id
                   /\ report[k].comment_text = comments[k].comment_text

\* A completed report of MaxLines entries mixing an error verdict and a
\* substantive one.
C4_Witness ==
    \E t \in Registered :
        /\ results_store[t].status = "completed"
        /\ Len(The(results_store[t].result)) = MaxLines
        /\ \E j, k \in 1..MaxLines :
             /\ The(results_store[t].result)[j].status = <<"error">>
             /\ The(results_store[t].result)[k].status = <<"uchten">>

\* A completion response that is empty or whose candidate text is not JSON.
Unparseable(llm_response) ==
    \/ llm_response = <<>>
    \/ json_loads(candidate_text(llm_response)).kind = "invalid"

\* C5: a completion that returned an empty or unparseable response for the
\* k-th comment left an error-status entry as the k-th collected result;
\* a task is in error only if a fault was met (never for a response's
\* content), and a task that met none and ran to its end is completed with
\* every comment classified.
C5_BadResponseIsLocal ==
    \A t \in Tasks :
        /\ \A k \in 1..Len(llm_log[t]) :
             LET call == llm_log[t][k]
             IN  (~IsNone(call.returned) /\ Unparseable(The(call.returned))) =>
                   /\ k <= Len(local[t].results)
                   /\ local[t].results[k].status = <<"error">>
                   /\ local[t].results[k].comment_id = call.comment_id
        /\ status_in(results_store, t) = "error" => fault[t] # no_fault
        /\ (local[t].pc = "done" /\ fault[t] = no_fault) =>
             /\ results_store[t].status = "completed"
             /\ Len(The(results_store[t].result)) = Len(local[t].processed_comments)
             /\ Len(llm_log[t]) = Len(local[t].processed_comments)

\* The first comment's response was unparseable, a later comment was still
\* classified with a substantive verdict, and the task completed.
C5_Witness ==
    \E t \in Registered :
        /\ results_store[t].status = "completed"
        /\ Len(llm_log[t]) >= 2
        /\ Unparseable(The(llm_log[t][1].returned))
        /\ The(results_store[t].result)[1].status = <<"error">>
        /\ The(results_store[t].result)[2].status = <<"uchten">>

\* The collection names a task has recreated, upserted into or searched.
names_used(t) == {vec_log[t][k][2] : k \in 1..Len(vec_log[t])}

\* The texts of the chunks of task t's two documents.
own_chunk_texts(t) ==
    {doc_path(t, v) \o <<ToString(k)>> : v \in {"v1", "v2"}, k \in 1..(MaxChunks + 1)}

\* C6: two distinct tasks never use a collection in common, and the hits
\* of a task's searches are chunks of its own documents.
C6_CollectionsDisjoint ==
    \A t \in Tasks :
        /\ \A u \in Tasks \ {t} : names_used(t) \cap names_used(u) = {}
        /\ search_hits[t] \subseteq own_chunk_texts(t)

\* Two tasks given the same document name have both populated and searched
\* their collections.
C6_Witness ==
    /\ {1, 2} \subseteq Registered
    /\ results_store[1].base_name = results_store[2].base_name
    /\ search_hits[1] # {} /\ search_hits[2] # {}
    /\ Len(vec_log[1]) = 6 /\ Len(vec_log[2]) = 6

\* A step of task u's request or background unit.
TaskStep(u) ==
    \/ SaveUploads(u)
    \/ Register(u, ConcurrentNames)
    \/ StartProcessing(u)
    \/ ProcessV1(u, ConcurrentDocs)
    \/ ProcessV2(u, ConcurrentDocs)
    \/ ProcessComments(u, ConcurrentFiles)
    \/ CreateVectorDb(u)
    \/ EnterLoop(u)
    \/ AnalyzeComment(u, ConcurrentResponses)
    \/ SaveResults(u)

Running == {"queued", "L542", "L551", "L560", "L569", "L593", "L602", "L610"}

\* C7: while a call of task t never returns, every other task that is
\* still running can take its next step, and a status query for it is
\* answered.
C7_HangStallsOnlyItsTask ==
    \A t \in Tasks :
        local[t].pc = "hung" =>
          \A u \in Tasks \ {t} :
              /\ local[u].pc \in Running => ENABLED TaskStep(u)
              /\ u \in Registered => ENABLED GetStatus(u)

\* C8: a record in error has no result and no results_path, whatever its
\* task had collected; a record with a result is completed.
C8_NoReportOnError ==
    \A t \in Registered :
        /\ results_store[t].status = "error" =>
             IsNone(results_store[t].result) /\ IsNone(results_store[t].results_path)
        /\ ~IsNone(results_store[t].result) => results_store[t].status = "completed"
        /\ ~IsNone(results_store[t].results_path) =>
             results_store[t].status = "completed"

\* A task failed while saving, with every comment classified.
C8_Witness ==
    \E t \in Registered :
        /\ results_store[t].status = "error"
        /\ fault[t] = <<"report", "write_failed">>
        /\ Len(local[t].results) = MaxLines

\* The two collection names of task t (lines 571-584).
names_of(t) ==
    {collection_name(prefix, clean_base_name(local[t].doc_base_name), t) :
       prefix \in {QDRANT_COLLECTION_V1_PREFIX, QDRANT_COLLECTION_V2_PREFIX}}

\* C9: a task that met an unreadable or unsupported document, or a
\* comments file with no non-blank line, is in error and has made no
\* vector-index call; for the empty comments file the message is the one
\* about no comments found.
C9_InputErrorBeforeIndex ==
    \A t \in Tasks :
        fault[t] \in {<<"v1", "unreadable">>, <<"v2", "unreadable">>,
                      <<"comments", "zero_comments">>} =>
          /\ results_store[t].status = "error"
          /\ vec_log[t] = <<>>
          /\ \A name \in names_of(t) : name \notin DOMAIN collections
          /\ fault[t] = <<"comments", "zero_comments">> =>
               results_store[t].error =
                 Some(<<"Failed to process comments or no comments found">>)

\* A task whose two documents were processed met a comments file with no
\* non-blank line.
C9_Witness ==
    \E t \in Registered :
        /\ fault[t] = <<"comments", "zero_comments">>
        /\ local[t].processed_v2 # <<>>
        /\ results_store[t].status = "error"

StatusLiterals ==
    {<<"uchten">>, <<"chastichno uchten">>, <<"ne uchten">>, <<"error">>}

\* C10: every entry of a stored report has one of the four status literals.
C10_StatusIsLiteral ==
    \A t \in Registered :
        ~IsNone(results_store[t].result) =>
          \A k \in 1..Len(The(results_store[t].result)) :
              The(results_store[t].result)[k].status \in StatusLiterals

\* The completion calls of task t that returned, and what each returned.
Answered(t) == {k \in 1..Len(llm_log[t]) : ~IsNone(llm_log[t][k].returned)}
Answer(t, k) == The(llm_log[t][k].returned)

\* The object with all five fields, and the values it gives them.
FullObject == ObjectOf(FieldSyms)

HasFullValues(result) ==
    /\ result.status = <<"uchten">>
    /\ result.explanation = <<"e">>
    /\ result.evidence_v1 = <<"a">>
    /\ result.evidence_v2 = <<"b">>
    /\ result.suggestion = <<"s">>

Contains(text, c) == \E i \in 1..Len(text) : text[i] = c

\* C11 as stated: a response that is the object with all five fields
\* between any framing text, which may hold braces of its own, gives a
\* result whose five fields are the object's values.
C11_WrappedObjectParses ==
    \A t \in Tasks : \A k \in Answered(t) :
        \A b \in Prose, a \in Prose :
            Answer(t, k) = b \o FullObject \o a => HasFullValues(local[t].results[k])

\* C11, amended: a response that is the object with all five fields between
\* framing text with no "{" before the object and no "}" after it gives a
\* result whose five fields are the object's values.
C11_BraceFreeWrapParses ==
    \A t \in Tasks : \A k \in Answered(t) :
        \A b \in Prose, a \in Prose :
            (/\ Answer(t, k) = b \o FullObject \o a
             /\ ~Contains(b, "{")
             /\ ~Contains(a, "}")) => HasFullValues(local[t].results[k])

\* The full object was returned between two prose characters and parsed.
C11_Witness ==
    \E t \in Tasks : \E k \in Answered(t) :
        /\ Answer(t, k) = <<"p">> \o FullObject \o <<"p">>
        /\ HasFullValues(local[t].results[k])

\* An explanation that names the empty-response condition.
StatesEmptyResponse(explanation) == Contains(explanation, "empty response")

\* C12: a completion call that returned no output left a result with status
\* error whose explanation states that the response was empty.
C12_EmptyResponseExplained ==
    \A t \in Tasks : \A k \in Answered(t) :
        Answer(t, k) = <<>> =>
          /\ local[t].results[k].status = <<"error">>
          /\ StatesEmptyResponse(local[t].results[k].explanation)

\* C13: when the candidate text of a non-empty response is not JSON, the
\* result has status error, its evidence_v1 is that candidate text, and its
\* explanation is the parser's error.
C13_ParseFailureKeepsCandidate ==
    \A t \in Tasks : \A k \in Answered(t) :
        LET r == Answer(t, k)
        IN  (r # <<>> /\ json_loads(candidate_text(r)).kind = "invalid") =>
              /\ local[t].results[k].status = <<"error">>
              /\ local[t].results[k].evidence_v1 = candidate_text(r)
              /\ local[t].results[k].explanation =
                   <<"Error analyzing comment: ", "JSONDecodeError">>
              /\ local[t].results[k].evidence_v2 = <<>>

\* Braces around text that is not JSON, framed by prose: the candidate text
\* is the braces' span, not the response.
C13_Witness ==
    \E t \in Tasks : \E k \in Answered(t) :
        /\ Answer(t, k) = <<"p", "{", "p", "}", "p">>
        /\ local[t].results[k].status = <<"error">>
        /\ local[t].results[k].evidence_v1 = <<"{", "p", "}">>

\* The result of an object holding exactly the fields `present`.
FieldsFrom(result, present) ==
    /\ result.status =
         IF "status:uchten" \in present THEN <<"uchten">> ELSE <<"ne uchten">>
    /\ result.explanation =
         IF "explanation:e" \in present THEN <<"e">>
         ELSE <<"No explanation provided">>
    /\ result.evidence_v1 =
         IF "evidence_v1:a" \in present THEN <<"a">> ELSE <<"No evidence provided">>
    /\ result.evidence_v2 =
         IF "evidence_v2:b" \in present THEN <<"b">> ELSE <<"No evidence provided">>
    /\ result.suggestion =
         IF "suggestion:s" \in present THEN <<"s">> ELSE <<>>

\* C14: when the candidate text is an object holding any subset of the five
\* fields, the result takes each present field from the object and the
\* fixed placeholder for each missing one.
C14_MissingFieldsGetPlaceholders ==
    \A t \in Tasks : \A k \in Answered(t) :
        \A present \in SUBSET FieldSyms :
            (/\ Answer(t, k) # <<>>
             /\ candidate_text(Answer(t, k)) = ObjectOf(present)) =>
              FieldsFrom(local[t].results[k], present)

\* An object with the explanation alone, and an object with no field.
C14_Witness ==
    \E t \in Tasks : \E k \in Answered(t) :
        /\ Answer(t, k) = <<"w", "{", "explanation:e", "}", "p">>
        /\ local[t].results[k].explanation = <<"e">>
        /\ local[t].results[k].status = <<"ne uchten">>
        /\ local[t].results[k].evidence_v1 = <<"No evidence provided">>

\* C15: blank lines give no comment, and the k-th comment loaded (the k-th
\* non-blank line of the file) has the id "C<k>".
C15_IdsCountNonBlankLines ==
    \A t \in Tasks :
        \A k \in 1..Len(local[t].processed_comments) :
            /\ local[t].processed_comments[k].comment_text # <<>>
            /\ local[t].processed_comments[k].comment_id = <<"C", ToString(k)>>

VersionPrefixes == {QDRANT_COLLECTION_V1_PREFIX, QDRANT_COLLECTION_V2_PREFIX}

\* C16: the cleaned base name of a task begins with neither version prefix,
\* and no collection name the task uses carries two version prefixes in a
\* row.
C16_CleanNameHasNoPrefix ==
    \A t \in Tasks :
        /\ \A prefix \in VersionPrefixes :
             ~StartsWith(local[t].clean_base_name, prefix)
        /\ \A name \in names_used(t) :
             ~(\E p1 \in VersionPrefixes, p2 \in VersionPrefixes :
                 StartsWith(name, p1 \o p2))

\* The stage whose work the step taken from each position does: saving the
\* uploads, processing a document or the comments, populating the index,
\* analyzing a comment, writing the report.
WorkStage ==
    ("idle" :> "uploading") @@ ("L542" :> "processing_v1")
    @@ ("L551" :> "processing_v2") @@ ("L560" :> "processing_comments")
    @@ ("L569" :> "creating_vector_db") @@ ("L602" :> "analyzing_comments")
    @@ ("L610" :> "saving_results")

\* C17: every step that does work of a stage, uploading included, starts
\* from a state where the task's record exists and shows that stage.
C17_StageVisibleBeforeWork ==
    [][\A t \in Tasks :
         (local'[t] # local[t] /\ local[t].pc \in DOMAIN WorkStage) =>
           progress_in(results_store, t) = WorkStage[local[t].pc]]_vars

\* The counter a status query of task t would read, if any.
counter_in(store, t) ==
    IF t \in DOMAIN store THEN store[t].comment_progress ELSE None

\* C18 as stated: whenever the record shows "i/total", the first i comments
\* are classified and their results collected; i never decreases; total is
\* the number of input comments.
C18_CounterCountsClassified ==
    [][\A t \in Tasks :
         LET old == counter_in(results_store, t)
             new == counter_in(results_store', t)
         IN  /\ ~IsNone(new) =>
                  /\ Len(local'[t].results) >= The(new)[1]
                  /\ The(new)[2] = Len(local'[t].processed_comments)
             /\ (~IsNone(old) /\ ~IsNone(new)) => The(new)[1] >= The(old)[1]]_vars

\* C18, amended: the counter is written before each comment is classified.
\* Whenever the record shows "i/total", 1 <= i <= total, the first i - 1
\* comments are classified and their results collected, and comment i is
\* classified too only when it is the last one and the loop is over; i
\* never decreases; total is the number of input comments.
C18_CounterCountsStarted ==
    [][\A t \in Tasks :
         LET old == counter_in(results_store, t)
             new == counter_in(results_store', t)
         IN  /\ ~IsNone(new) =>
                  LET i     == The(new)[1]
                      total == The(new)[2]
                      n     == Len(local'[t].results)
                  IN  /\ 1 <= i /\ i <= total
                      /\ total = Len(local'[t].processed_comments)
                      /\ n \in {i - 1, i}
                      /\ n = i => (i = total /\ local'[t].pc # "L602")
                      /\ local'[t].pc = "L602" => local'[t].i = i - 1
             /\ (~IsNone(old) /\ ~IsNone(new)) => The(new)[1] >= The(old)[1]]_vars

\* A query can read "2/2" while the second comment is not classified yet.
C18_Witness ==
    \E t \in Registered :
        /\ results_store[t].comment_progress = Some(<<2, 2>>)
        /\ results_store[t].progress = "analyzing_comments"
        /\ local[t].pc = "L602"
        /\ Len(local[t].results) = 1
        /\ ~blocked

\* C19: a step that changes a stored record is a step of the background
\* unit of that record's task (which moves that task's frame); status
\* queries and the steps of other tasks leave every field unchanged.
C19_OnlyOwnUnitMutates ==
    [][\A t \in Tasks :
         (/\ t \in DOMAIN results_store
          /\ t \in DOMAIN results_store'
          /\ results_store'[t] # results_store[t]) => local'[t] # local[t]]_vars

\* C20: in every state a query can read, a record with status completed has
\* progress completed, a result, a results_path and a completed_at, and a
\* record with status error has progress error and an error message; a
\* terminal progress comes with the same status.
C20_RecordsAreWhole ==
    \A t \in Registered :
        LET rec == results_store[t]
        IN  /\ rec.status = "completed" =>
                 /\ rec.progress = "completed"
                 /\ ~IsNone(rec.result)
                 /\ ~IsNone(rec.results_path)
                 /\ ~IsNone(rec.completed_at)
            /\ rec.status = "error" =>
                 /\ rec.progress = "error"
                 /\ ~IsNone(rec.error)
            /\ rec.progress \in Terminal => rec.status = rec.progress

\* One task ended in error and the other completed, with queries still
\* answerable for both.
C20_Witness ==
    /\ {1, 2} \subseteq Registered
    /\ results_store[1].status = "error"
    /\ results_store[2].status = "completed"
    /\ ENABLED GetStatus(1)
    /\ ENABLED GetStatusHtml(2)

\* The version of the documents whose processing task t has begun: v2 is
\* begun once a v2 fault is met or the v2 chunks are there.
BegunV2(t) == fault[t][1] = "v2" \/ local[t].processed_v2 # <<>>

\* C21: within a task, document v2 is processed only after v1 was; the k-th
\* completion call is for the k-th input comment and is made only when the
\* results of the k - 1 comments before it are appended, in input order;
\* so at most one classification is unfinished at any time.
C21_OneStepAtATime ==
    \A t \in Tasks :
        /\ BegunV2(t) => local[t].processed_v1 # <<>>
        /\ local[t].processed_comments # <<>> => local[t].processed_v2 # <<>>
        /\ Len(llm_log[t]) <= Len(local[t].processed_comments)
        /\ Len(local[t].results) <= Len(llm_log[t])
        /\ Len(llm_log[t]) <= Len(local[t].results) + 1
        /\ \A k \in 1..Len(llm_log[t]) :
             /\ llm_log[t][k].comment_id = local[t].processed_comments[k].comment_id
             /\ k < Len(llm_log[t]) => ~IsNone(llm_log[t][k].returned)
        /\ \A k \in 1..Len(local[t].results) :
             local[t].results[k].comment_id = local[t].processed_comments[k].comment_id

\* The second comment's completion call was made with the first comment's
\* result appended, and did not return.
C21_Witness ==
    \E t \in Tasks :
        /\ Len(llm_log[t]) = 2
        /\ IsNone(llm_log[t][2].returned)
        /\ Len(local[t].results) = 1
        /\ local[t].results[1].comment_id # llm_log[t][2].comment_id

\* C22: in a task's sequence of vector-index calls, an upsert into a
\* collection comes after a recreate of it, and a search of a collection
\* comes after the four calls that recreate and populate both collections,
\* the searched one among them.
C22_RecreateUpsertSearch ==
    \A t \in Tasks :
        LET log == vec_log[t]
            before(j, op, name) ==
                \E i \in 1..(j - 1) : log[i][1] = op /\ log[i][2] = name
        IN  \A j \in 1..Len(log) :
                /\ log[j][1] = "upsert_chunks" =>
                     before(j, "recreate_collection", log[j][2])
                /\ log[j][1] = "search" =>
                     /\ before(j, "recreate_collection", log[j][2])
                     /\ before(j, "upsert_chunks", log[j][2])
                     /\ Cardinality({log[i][2] : i \in {h \in 1..(j - 1) :
                                        log[h][1] = "upsert_chunks"}}) = 2
                     /\ log[j][2] \in DOMAIN collections
                     /\ collections[log[j][2]] # <<>>

\* A task has searched both of its collections, which hold its chunks.
C22_Witness ==
    \E t \in Tasks :
        /\ Len(vec_log[t]) >= 6
        /\ vec_log[t][5][1] = "search"
        /\ vec_log[t][6][1] = "search"
        /\ vec_log[t][5][2] # vec_log[t][6][2]
        /\ search_hits[t] # {}

\* The 1-based places of the first "{" and of the last "}" of a text.
FirstOpen(text) ==
    CHOOSE i \in 1..Len(text) : text[i] = "{" /\ \A j \in 1..(i - 1) : text[j] # "{"
LastClose(text) ==
    CHOOSE i \in 1..Len(text) :
        text[i] = "}" /\ \A j \in (i + 1)..Len(text) : text[j] # "}"

\* C23 as stated: of a non-empty response, nothing before its first "{"
\* and nothing after its last "}" reaches the parser: the text handed over
\* begins at the first "{" when there is one, ends at the last "}" when
\* there is one, and is the span between them when there are both.
C23_ParserGetsBraceSpan ==
    \A t \in Tasks : \A k \in Answered(t) :
        LET r      == Answer(t, k)
            handed == candidate_text(r)
        IN  r # <<>> =>
              /\ Contains(r, "{") =>
                   \E n \in 0..Len(r) : handed = SubSeq(r, FirstOpen(r), n)
              /\ Contains(r, "}") =>
                   \E m \in 1..(Len(r) + 1) : handed = SubSeq(r, m, LastClose(r))
              /\ (Contains(r, "{") /\ Contains(r, "}")) =>
                   handed = SubSeq(r, FirstOpen(r), LastClose(r))

\* C23, amended: of a non-empty response holding both a "{" and a "}", the
\* text handed to the parser is the span from the first "{" to the last "}"
\* (no text when the last "}" comes before the first "{"); a response
\* lacking either brace is handed over whole, stripped of the whitespace
\* around it.  An error result shows the text handed over as evidence_v1.
C23_ParserGetsSpanOrWhole ==
    \A t \in Tasks : \A k \in Answered(t) :
        LET r      == Answer(t, k)
            handed == candidate_text(r)
            span   == IF Contains(r, "{") /\ Contains(r, "}")
                      THEN SubSeq(r, FirstOpen(r), LastClose(r))
                      ELSE Strip(r)
        IN  r # <<>> =>
              /\ handed = span
              /\ local[t].results[k].status = <<"error">> =>
                   local[t].results[k].evidence_v1 = span

\* A response whose braces frame text that is not JSON, with a "}" before
\* the first "{" and a "{" after the last "}".
C23_Witness ==
    \E t \in Tasks : \E k \in Answered(t) :
        /\ Answer(t, k) = <<"}", "{", "p", "}", "{">>
        /\ local[t].results[k].evidence_v1 = <<"{", "p", "}">>

\* C24: if no call to an external dependency stays out for ever, every task
\* whose background unit was queued eventually has status completed or
\* error.
C24_StartedTaskEnds ==
    ([]~blocked) =>
      \A t \in Tasks :
          (local[t].pc = "queued") ~> (status_in(results_store, t) \in Terminal)

\* Both tasks were started and ran to completion, no call having hung.
C24_Witness ==
    /\ ~blocked
    /\ \A t \in {1, 2} :
         /\ t \in Registered
         /\ local[t].pc = "done"
         /\ results_store[t].status = "completed"

\* C25: no comment of a task is sent to the completion service twice; a
\* task that completed sent each of its comments exactly once; and an empty
\* or malformed response left an error result, the next call, if any,
\* being for the next comment.
C25_OneCompletionPerComment ==
    \A t \in Tasks :
        /\ \A j \in 1..Len(llm_log[t]) : \A k \in 1..Len(llm_log[t]) :
             llm_log[t][j].comment_id = llm_log[t][k].comment_id => j = k
        /\ status_in(results_store, t) = "completed" =>
             \A c \in 1..Len(local[t].processed_comments) :
                 Cardinality({k \in 1..Len(llm_log[t]) :
                                llm_log[t][k].comment_id =
                                  local[t].processed_comments[c].comment_id}) = 1
        /\ \A k \in Answered(t) :
             Unparseable(Answer(t, k)) =>
               /\ k <= Len(local[t].results)
               /\ local[t].results[k].status = <<"error">>
               /\ k < Len(llm_log[t]) =>
                    llm_log[t][k + 1].comment_id =
                      local[t].processed_comments[k + 1].comment_id

\* A task completed after an empty response for its first comment and a
\* malformed one for its second.
C25_Witness ==
    \E t \in Registered :
        /\ results_store[t].status = "completed"
        /\ Len(llm_log[t]) = 2
        /\ llm_log[t][1].returned = Some(<<>>)
        /\ llm_log[t][2].returned = Some(<<"p", "p">>)
        /\ The(results_store[t].result)[1].status = <<"error">>
        /\ The(results_store[t].result)[2].status = <<"error">>

\* The four calls of lines 586-590 have returned for task t.
IndexBuilt(t) ==
    \/ local[t].pc \in {"L593", "L602", "L610"}
    \/ status_in(results_store, t) = "completed"

\* The processed chunks of a version of task t, and its collection.
chunks_of(t, version) ==
    IF version = "v1" THEN local[t].processed_v1 ELSE local[t].processed_v2
collection_of(t, version) ==
    collection_name(IF version = "v1" THEN QDRANT_COLLECTION_V1_PREFIX
                    ELSE QDRANT_COLLECTION_V2_PREFIX,
                    clean_base_name(local[t].doc_base_name), t)

\* C26: the N chunk records of a processed document version carry the
\* chunk_index values 0..N-1 in text order, each with the embedding of its
\* own text; and once the index is built, the version's collection holds
\* exactly those N chunks.
C26_ChunksIndexedAndStored ==
    \A t \in Tasks : \A version \in {"v1", "v2"} :
        LET chunks == chunks_of(t, version)
        IN  /\ \A k \in 1..Len(chunks) :
                 /\ chunks[k].chunk_index = k - 1
                 /\ chunks[k].text = doc_path(t, version) \o <<ToString(k)>>
                 /\ chunks[k].embedding = <<"search_document: ">> \o chunks[k].text
            /\ IndexBuilt(t) =>
                 /\ collection_of(t, version) \in DOMAIN collections
                 /\ Len(collections[collection_of(t, version)]) = Len(chunks)
                 /\ collections[collection_of(t, version)] = chunks

\* The index is built from a v1 document of MaxChunks chunks and a v2
\* document of one.
C26_Witness ==
    \E t \in Tasks :
        /\ IndexBuilt(t)
        /\ Len(local[t].processed_v1) = MaxChunks
        /\ Len(local[t].processed_v2) = 1
        /\ Len(collections[collection_of(t, "v1")]) = MaxChunks
        /\ collections[collection_of(t, "v1")][MaxChunks].chunk_index = MaxChunks - 1

\* The searches task t has called, in order.
searches_of(t) == SelectSeq(vec_log[t], LAMBDA call : call[1] = "search")

\* The evidence of a prompt lists `hits` in order, the i-th labeled i.
ListsInOrder(text, hits) ==
    /\ Len(text) = Len(hits)
    /\ \A i \in 1..Len(text) : text[i] = <<"Chunk ", ToString(i), hits[i]>>

\* The texts of the first n points of a collection (the nearest n, in the
\* order the store returns them).
first_texts(name, n) ==
    [i \in 1..(IF Len(collections[name]) < n THEN Len(collections[name]) ELSE n) |->
       collections[name][i].text]

\* C27: the completion call for the k-th comment comes after exactly two
\* searches for it, the first of the task's v1 collection and the second
\* of its v2 collection, both with the comment's embedding and the same k;
\* no comment gets a third search; and the evidence of each version in the
\* prompt lists the version's hits in retrieval order, labeled 1..n with
\* n at most k.
C27_TwoSearchesPerComment ==
    \A t \in Tasks :
        LET searches == searches_of(t)
            comments == local[t].processed_comments
        IN  /\ Len(searches) >= 2 * Len(llm_log[t])
            /\ Len(searches) <= 2 * Len(local[t].results) + 2
            /\ Len(searches) <= 2 * Len(comments)
            /\ status_in(results_store, t) = "completed" =>
                 Len(searches) = 2 * Len(comments)
            /\ \A j \in 1..Len(searches) :
                 /\ searches[j][2] =
                      collection_of(t, IF j % 2 = 1 THEN "v1" ELSE "v2")
                 /\ searches[j][3] = comments[(j + 1) \div 2].embedding
                 /\ searches[j][4] = top_k
            /\ \A k \in 1..Len(llm_log[t]) :
                 /\ Len(llm_log[t][k].v1_text) <= top_k
                 /\ Len(llm_log[t][k].v2_text) <= top_k
                 /\ ListsInOrder(llm_log[t][k].v1_text,
                                 first_texts(collection_of(t, "v1"), top_k))
                 /\ ListsInOrder(llm_log[t][k].v2_text,
                                 first_texts(collection_of(t, "v2"), top_k))

\* A comment's prompt lists top_k hits of a v1 collection that holds more,
\* and the one chunk of the v2 collection.
C27_Witness ==
    \E t \in Tasks :
        /\ Len(llm_log[t]) = 2
        /\ Len(searches_of(t)) = 4
        /\ Len(collections[collection_of(t, "v1")]) = top_k + 1
        /\ Len(llm_log[t][2].v1_text) = top_k
        /\ Len(llm_log[t][2].v2_text) = 1

\* The texts of the hits listed in a prompt's evidence.
hit_texts(text) == {text[i][3] : i \in 1..Len(text)}

\* C28: every search of a task names a collection the task has recreated
\* and populated: the first search for a comment names the collection the
\* v1 chunks were upserted into and the second the one of the v2 chunks;
\* the two names differ; and the v1 evidence of a prompt consists of v1
\* chunks of the task, the v2 evidence of v2 chunks.
C28_SearchedNamesAreBuiltNames ==
    \A t \in Tasks :
        LET searches == searches_of(t)
        IN  /\ \A j \in 1..Len(searches) :
                 /\ Len(vec_log[t]) >= 4
                 /\ vec_log[t][2] = <<"upsert_chunks", searches[j][2]>>
                      <=> j % 2 = 1
                 /\ vec_log[t][4] = <<"upsert_chunks", searches[j][2]>>
                      <=> j % 2 = 0
                 /\ collections[searches[j][2]] =
                      chunks_of(t, IF j % 2 = 1 THEN "v1" ELSE "v2")
            /\ searches # <<>> => collection_of(t, "v1") # collection_of(t, "v2")
            /\ \A k \in 1..Len(llm_log[t]) :
                 /\ hit_texts(llm_log[t][k].v1_text) =
                      {local[t].processed_v1[i].text :
                         i \in 1..Len(local[t].processed_v1)}
                 /\ hit_texts(llm_log[t][k].v2_text) =
                      {local[t].processed_v2[i].text :
                         i \in 1..Len(local[t].processed_v2)}

\* A task whose document name carried both version prefixes has retrieved
\* evidence of both versions.
C28_Witness ==
    \E t \in Tasks :
        /\ local[t].doc_base_name = <<"doc_v2_", "doc_v1_", "a">>
        /\ Len(llm_log[t]) >= 1
        /\ Len(llm_log[t][1].v1_text) = MaxChunks
        /\ Len(llm_log[t][1].v2_text) = 1

NonTerminalStages == {Stages[k] : k \in 1..(Len(Stages) - 1)}

\* C29: in every stored record, status is processing exactly when progress
\* is one of the seven stages before completed, completed exactly when
\* progress is completed, and error exactly when progress is error.
C29_StatusMatchesProgress ==
    \A t \in Registered :
        LET rec == results_store[t]
        IN  /\ rec.status \in {"processing", "completed", "error"}
            /\ rec.progress \in NonTerminalStages \cup Terminal
            /\ rec.status = "processing" <=> rec.progress \in NonTerminalStages
            /\ rec.status = "completed" <=> rec.progress = "completed"
            /\ rec.status = "error" <=> rec.progress = "error"

\* One record is in error while the other is still processing, at the
\* saving_results stage.
C29_Witness ==
    /\ {1, 2} \subseteq Registered
    /\ results_store[1].status = "error"
    /\ results_store[2].status = "processing"
    /\ results_store[2].progress = "saving_results"

\* C30: a non-empty response whose candidate text is JSON but not an
\* object left an error-status result carrying that text, and met no fault:
\* the completion call returned and the task went on.
C30_NonObjectIsErrorResult ==
    \A t \in Tasks : \A k \in Answered(t) :
        LET r == Answer(t, k)
        IN  (r # <<>> /\ Strip(r) = <<"n">>) =>
              /\ k <= Len(local[t].results)
              /\ local[t].results[k].status = <<"error">>
              /\ local[t].results[k].evidence_v1 = <<"n">>
              /\ local[t].results[k].explanation =
                   <<"Error analyzing comment: ", "AttributeError">>
              /\ local[t].results[k].comment_id = llm_log[t][k].comment_id
              /\ (local[t].pc = "done" /\ fault[t] = no_fault) =>
                   results_store[t].status = "completed"

\* A task completed whose only comment got a bare number, framed by
\* whitespace, as its response.
C30_Witness ==
    \E t \in Registered : \E k \in Answered(t) :
        /\ Answer(t, k) = <<"w", "n", "w">>
        /\ results_store[t].status = "completed"
        /\ The(results_store[t].result)[k].status = <<"error">>

====
